---- MODULE Spec2Model ----
(***************************************************************************)
(* The podcast transcript workflow of src/graph.py: the planning node, the *)
(* per-segment research sub-graph (generate_queries -> search_web ->       *)
(* write_dialogue), the intro/outro node and the transcript compiler, run  *)
(* by the graph wired at graph.py:216-248.                                 *)
(*                                                                         *)
(* The graph runs in supersteps: the nodes scheduled for a superstep run   *)
(* concurrently on the state as it was when the superstep began, their     *)
(* returned updates are merged into the state when all of them have        *)
(* finished, and the edges of the nodes that ran schedule the next         *)
(* superstep.  A sub-graph instance started by a Send is one task of the   *)
(* parent's superstep.  A node that raises ends the run.                   *)
(*                                                                         *)
(* PodcastSegment objects are mutable and shared: generate_podcast_plan    *)
(* puts the same objects into state["segments"], into the seeded           *)
(* state["completed_segments"] and into the Send payloads                  *)
(* (graph.py:54-65), so an assignment segment.dialogue = ... is seen       *)
(* through every reference.  The objects live in heap; lists hold          *)
(* references (indices into heap).                                         *)
(*                                                                         *)
(* Around the workflow, process_podcast_request (src/app.py) turns the end *)
(* of the graph run into the response.  Configuration.from_runnable_config,*)
(* deduplicate_and_format_sources and preprocess_transcript are pure       *)
(* functions: each has a specification of its own (ConfigSpec,             *)
(* AggregatorSpec, PreprocessSpec) that applies it to every input of a     *)
(* bounded set, as CompilerSpec does for compile_final_transcript.         *)
(* SearchSpec is one search round of generate_podcast_plan or search_web:  *)
(* the concurrent queries of tavily_search_async and their aggregation.    *)
(* HandlerSpec is the server: calls of process_podcast_request that        *)
(* interleave at their awaits and share os.environ and the file system.    *)
(***************************************************************************)
EXTENDS Integers, Sequences, FiniteSets, TLC

VARIABLES
    request,            \* PodcastStateInput: [host, guest] of the request
    configurable,       \* the resolved Configuration: [max_search_depth]
    pc,                 \* "RUNNING", "END" (graph reached END) or "ERROR" (a node raised)
    superstep,          \* number of supersteps completed
    scheduled,          \* parent nodes scheduled in this superstep that have not run yet
    ran,                \* parent nodes that have run in this superstep
    writes,             \* updates returned by the parent nodes of this superstep
    heap,               \* the PodcastSegment objects: [title, research, dialogue]
    segments,           \* state["segments"]: references, in plan order
    completed_segments, \* state["completed_segments"]: references, in merge order
    final_transcript,   \* state["final_transcript"]: <<>> when unset, else <<text>>
    inst,               \* the sub-graph instances, in Send order
    error,              \* the exception that ended the run
    runs,               \* how many times each parent node has run
    externalFailed,     \* an external call (generation, grading, search) has raised
    response,           \* the ResponsePayload process_podcast_request returned: <<>> or <<r>>
    webhook,            \* the payloads handed to requests.post for the webhook
    synthesized,        \* generate_podcast_audio has started speech synthesis
    args,               \* the arguments of a function applied on its own
    returned,           \* what that function returned: <<>> before the call, else <<r>>
    search,             \* one search round: the tasks of tavily_search_async's gather
    os_environ,         \* os.environ: the API keys set_api_keys last wrote
    files,              \* the temporary audio files that exist
    handlers            \* the calls of process_podcast_request, in order of arrival

\* the state of the HTTP layer (app.py) and of a function applied on its own
appVars == <<response, webhook, synthesized>>
callVars == <<args, returned, search>>
serverVars == <<os_environ, files, handlers>>

vars == <<request, configurable, pc, superstep, scheduled, ran, writes, heap, segments,
          completed_segments, final_transcript, inst, error, runs, externalFailed,
          response, webhook, synthesized, args, returned, search, os_environ, files,
          handlers>>

----------------------------------------------------------------------------
(* Bounds of the model *)

MaxSegments == 3
MaxDepth == 2
MaxRounds == 3
MaxCompleted == 3
MaxResponses == 2
MaxResults == 2
MaxTranscript == 5
MaxQueries == 3
MaxRequests == 2

(* Program constants *)

DefaultMaxSearchDepth == 4
MaxTokensPerSource == 500

----------------------------------------------------------------------------
(* Values *)

Titles == {"Intro", "Basics", "Apps", "Outro"}

\* str.lower() on the titles of the model
Lower(t) ==
    CASE t = "Intro" -> "intro"
      [] t = "Outro" -> "outro"
      [] t = "Basics" -> "basics"
      [] t = "Apps" -> "apps"
      [] OTHER -> t

\* A text is a sequence of tokens; the empty string is <<>>.
EmptyText == <<>>

\* The dialogue of a planned segment: "To be populated later" (prompts.py:34)
PlanDialogues == {EmptyText}

\* The request: the names of PodcastStateInput
Requests == {[host |-> "Ava", guest |-> "Ben"]}

\* The payload's optional webhook_url: <<>> for None
WebhookUrls == {<<>>, <<"https://hook">>}

\* max_search_depth: the default, or a configured positive depth
DepthValues == (1..MaxDepth) \cup {DefaultMaxSearchDepth}

\* The segments a Segments generation can return
PlannedSegments == [title : Titles, research : BOOLEAN, dialogue : PlanDialogues]

\* The plans of up to n segments: titles are unique within a plan
Plans(n) ==
    UNION {{plan \in [1..k -> PlannedSegments] :
               \A i, j \in 1..k : plan[i].title = plan[j].title => i = j} : k \in 0..n}

NumeralOf == <<"1", "2", "3", "4", "5", "6", "7", "8", "9">>

\* The text each generation call returns: an opaque value naming the call
DraftText(ref, round) == <<"draft", NumeralOf[ref], NumeralOf[round]>>
OpeningText == <<"opening">>
ClosingText == <<"closing">>

GeneratedQueries == <<"generated">>
FollowUpQueries(round) == <<"follow_up", NumeralOf[round]>>
SourceText(queries) == <<"Sources:">> \o queries

NoError == [kind |-> "", titles |-> <<>>]

\* no request has set the API keys
NoKeys == <<>>

\* no search round has begun
NoSearch == [at |-> "idle", tasks |-> <<>>, arrived |-> <<>>, search_docs |-> <<>>]

\* The exception each failing call of generate_podcast_plan raises (graph.py:32, 41,
\* 45): none of the three calls is inside a try, so the call's own exception leaves
\* the node
PlanCallError ==
    [query_generation_fails |-> "ExternalCallError: query generation",
     search_fails |-> "ExternalCallError: web search",
     segment_generation_fails |-> "ExternalCallError: segment generation"]
NoWrites == [segments |-> <<>>, completed_segments |-> <<>>, final_transcript |-> <<>>,
             goto |-> <<>>]

PodcastStateKeys == {"topic", "host", "guest", "feedback_on_podcast_plan", "segments",
                     "completed_segments", "episode_segments_from_research",
                     "final_transcript"}

\* The attributes of a dict (RunnableConfig is a TypedDict: a plain dict at run time)
DictAttributes == {"get", "items", "keys", "values", "pop", "update", "setdefault",
                   "copy", "clear", "popitem", "fromkeys"}

----------------------------------------------------------------------------
(* Pure helpers *)

\* the PodcastSegment values a list of references denotes
Values(h, refs) == [k \in DOMAIN refs |-> h[refs[k]]]

\* x in lst, for pydantic models: equality of all fields
Contains(h, refs, ref) == \E k \in DOMAIN refs : h[refs[k]] = h[ref]

\* next((s for s in segments if s.title.lower() == name), None): <<>> for None
FirstTitled(h, refs, name) ==
    LET hits == SelectSeq(refs, LAMBDA r : Lower(h[r].title) = name)
    IN  IF hits = <<>> THEN <<>> ELSE <<Head(hits)>>

RECURSIVE TitleToDialogue(_)
\* {s.title: s.dialogue for s in completed}: a later entry replaces an earlier one
TitleToDialogue(completed) ==
    IF completed = <<>> THEN <<>>
    ELSE LET last == completed[Len(completed)]
         IN  (last.title :> last.dialogue) @@ TitleToDialogue(SubSeq(completed, 1, Len(completed) - 1))

\* the missing titles cut to the first one found
MissingTitles_FirstOnly(segs, lookup) ==
    LET absent == SelectSeq(segs, LAMBDA s : s.title \notin DOMAIN lookup)
    IN  IF absent = <<>> THEN <<>> ELSE <<absent[1].title>>

\* [s.title for s in segments if s.title not in completed_segments]
MissingTitles(segs, lookup) ==
    LET absent == SelectSeq(segs, LAMBDA s : s.title \notin DOMAIN lookup)
    IN  [k \in DOMAIN absent |-> absent[k].title]

RECURSIVE JoinDialogues(_)
\* "\n\n".join(dialogues)
JoinDialogues(dialogues) ==
    IF dialogues = <<>> THEN EmptyText
    ELSE IF Len(dialogues) = 1 THEN dialogues[1]
    ELSE dialogues[1] \o <<"\n\n">> \o JoinDialogues(Tail(dialogues))

\* compile_final_transcript joining the dialogues in the accumulator's order
CompileTranscript_ArrivalOrder(segs, completed) ==
    LET lookup == TitleToDialogue(completed)
        missing == MissingTitles(segs, lookup)
        dialogues == [k \in DOMAIN completed |-> completed[k].dialogue]
    IN  IF missing # <<>>
        THEN [missing |-> missing, dialogues |-> <<>>, final_transcript |-> EmptyText]
        ELSE [missing |-> <<>>, dialogues |-> dialogues,
              final_transcript |-> JoinDialogues(dialogues)]

\* compile_final_transcript as a function of the two lists it reads: the titles it
\* reports missing, the dialogue it assigns to each planned segment, and the transcript
CompileTranscript(segs, completed) ==
    LET lookup == TitleToDialogue(completed)
        missing == MissingTitles(segs, lookup)
        dialogues == [k \in DOMAIN segs |-> lookup[segs[k].title]]
    IN  IF missing # <<>>
        THEN [missing |-> missing, dialogues |-> <<>>, final_transcript |-> EmptyText]
        ELSE [missing |-> <<>>, dialogues |-> dialogues,
              final_transcript |-> JoinDialogues(dialogues)]

\* no segment seeded into the accumulator
NonResearch_NotSeeded(h, refs) == <<>>

\* non_research = [s for s in podcast_segments.segments if not s.research]
NonResearch(h, refs) == SelectSeq(refs, LAMBDA r : ~h[r].research)

\* a Send for every planned segment, research-required or not
PlanSends_AllSegments(h, refs, host, guest) ==
    [k \in DOMAIN refs |->
        [segment |-> refs[k], search_iterations |-> 0, host |-> host, guest |-> guest]]

\* the Send payloads with the iteration counter started at 1
PlanSends_StartAtOne(h, refs, host, guest) ==
    LET research == SelectSeq(refs, LAMBDA r : h[r].research)
    IN  [k \in DOMAIN research |->
            [segment |-> research[k], search_iterations |-> 1,
             host |-> host, guest |-> guest]]

\* the Send payloads of generate_podcast_plan's Command
PlanSends(h, refs, host, guest) ==
    LET research == SelectSeq(refs, LAMBDA r : h[r].research)
    IN  [k \in DOMAIN research |->
            [segment |-> research[k], search_iterations |-> 0,
             host |-> host, guest |-> guest]]

\* the conditional edge taken to the sub-graph node whatever the state holds
RouteAfterPlan_ToSubGraph == "build_segment_with_research"

\* the path function of the conditional edge out of generate_podcast_plan, applied to
\* the graph state: edges.get("goto") is None for a key the state does not have
RouteAfterPlan ==
    IF "goto" \in PodcastStateKeys THEN "build_segment_with_research"
    ELSE "write_intro_outro"

\* write_dialogue's branch with the depth test left out
WriteDialogueBranch_NoDepthTest(grade, search_iterations) ==
    IF grade = "pass" THEN "accept" ELSE "revise"

\* write_dialogue's branch: "accept", "revise", or the exception it raises.  The test
\* reads max_search_depth as an attribute of config, the RunnableConfig dict, and is
\* reached only when the grade is not "pass".
WriteDialogueBranch(grade, search_iterations) ==
    IF grade = "pass" THEN "accept"
    ELSE IF "max_search_depth" \notin DictAttributes THEN "AttributeError"
    ELSE IF search_iterations >= configurable.max_search_depth THEN "accept"
    ELSE "revise"

\* the assignment giving the object a new title as well
SetDialogue_Retitled(h, ref, text) ==
    [h EXCEPT ![ref].dialogue = text, ![ref].title = "Untitled"]

\* the assignment made on every object of the heap
SetDialogue_Shared(h, ref, text) == [r \in DOMAIN h |-> [h[r] EXCEPT !.dialogue = text]]

\* segment.dialogue = text (graph.py:130, 180, 191): the object's other fields stay
SetDialogue(h, ref, text) == [h EXCEPT ![ref].dialogue = text]

\* operator.add, the reducer of PodcastState.completed_segments
Reduce(current, update) == current \o update

----------------------------------------------------------------------------
(* The workflow *)

Init ==
    /\ request \in Requests
    /\ configurable \in [max_search_depth : DepthValues]
    /\ pc = "RUNNING"
    /\ superstep = 0
    /\ scheduled = {"generate_podcast_plan"}
    /\ ran = {}
    /\ writes = NoWrites
    /\ heap = <<>>
    /\ segments = <<>>
    /\ completed_segments = <<>>
    /\ final_transcript = <<>>
    /\ inst = <<>>
    /\ error = NoError
    /\ runs = [generate_podcast_plan |-> 0, write_intro_outro |-> 0,
               compile_final_transcript |-> 0]
    /\ externalFailed = FALSE
    /\ response = <<>>
    /\ webhook = <<>>
    /\ synthesized = FALSE
    /\ args = <<>>
    /\ returned = <<>>
    /\ search = NoSearch
    /\ os_environ = NoKeys
    /\ files = {}
    /\ handlers = <<>>

\* a node's exception is recorded and the run goes on
Raise_Swallowed(kind, titles) ==
    /\ pc' = pc
    /\ error' = [kind |-> kind, titles |-> titles]

\* a node raises: the run ends with the exception
Raise(kind, titles) ==
    /\ pc' = "ERROR"
    /\ error' = [kind |-> kind, titles |-> titles]

\* the node has run and returned
Finish(node) ==
    /\ scheduled' = scheduled \ {node}
    /\ ran' = ran \cup {node}
    /\ runs' = [runs EXCEPT ![node] = @ + 1]

\* generate_podcast_plan (graph.py:17-66)
GeneratePodcastPlan ==
    /\ pc = "RUNNING"
    /\ "generate_podcast_plan" \in scheduled
    /\ \E outcome \in DOMAIN PlanCallError \cup {"ok"} :
        IF outcome # "ok"
        THEN /\ Raise(PlanCallError[outcome], <<>>)
             /\ externalFailed' = TRUE
             /\ UNCHANGED <<scheduled, ran, runs, writes, heap>>
        ELSE \E plan \in Plans(MaxSegments) :
             LET refs == [i \in DOMAIN plan |-> i]
             IN  /\ heap' = plan
                 /\ writes' = [writes EXCEPT
                        !.segments = <<refs>>,
                        !.completed_segments = NonResearch(plan, refs),
                        !.goto = PlanSends(plan, refs, request.host, request.guest)]
                 /\ Finish("generate_podcast_plan")
                 /\ UNCHANGED <<pc, error, externalFailed>>
    /\ UNCHANGED <<appVars, callVars, serverVars,
                   request, configurable, superstep, segments, completed_segments,
                   final_transcript, inst>>

\* generate_queries (graph.py:68-85)
GenerateQueries(i) ==
    /\ pc = "RUNNING"
    /\ inst[i].pc = "generate_queries"
    /\ \E ok \in BOOLEAN :
        IF ~ok
        THEN /\ Raise("ExternalCallError", <<>>)
             /\ externalFailed' = TRUE
             /\ inst' = [inst EXCEPT ![i].pc = "raised"]
        ELSE /\ inst' = [inst EXCEPT ![i].pc = "search_web",
                                     ![i].search_queries = GeneratedQueries]
             /\ UNCHANGED <<pc, error, externalFailed>>
    /\ UNCHANGED <<appVars, callVars, serverVars,
                   request, configurable, superstep, scheduled, ran, writes, heap,
                   segments, completed_segments, final_transcript, runs>>

\* search_web (graph.py:87-104)
SearchWeb(i) ==
    /\ pc = "RUNNING"
    /\ inst[i].pc = "search_web"
    /\ inst[i].search_iterations < MaxRounds
    /\ \E ok \in BOOLEAN :
        IF ~ok
        THEN /\ Raise("ValueError: Unsupported search API", <<>>)
             /\ externalFailed' = TRUE
             /\ inst' = [inst EXCEPT ![i].pc = "raised"]
        ELSE /\ inst' = [inst EXCEPT
                    ![i].pc = "write_dialogue",
                    ![i].source_str = SourceText(inst[i].search_queries),
                    ![i].search_iterations = @ + 1,
                    ![i].searches = @ + 1,
                    ![i].grade = ""]
             /\ UNCHANGED <<pc, error, externalFailed>>
    /\ UNCHANGED <<appVars, callVars, serverVars,
                   request, configurable, superstep, scheduled, ran, writes, heap,
                   segments, completed_segments, final_transcript, runs>>

\* write_dialogue (graph.py:106-152)
WriteDialogue(i) ==
    /\ pc = "RUNNING"
    /\ inst[i].pc = "write_dialogue"
    /\ LET ref == inst[i].segment
           drafted == SetDialogue(heap, ref, DraftText(ref, inst[i].searches))
       IN  \E outcome \in {"draft fails", "grading fails", "pass", "fail"} :
            CASE outcome = "draft fails" ->
                    /\ Raise("ExternalCallError", <<>>)
                    /\ externalFailed' = TRUE
                    /\ inst' = [inst EXCEPT ![i].pc = "raised"]
                    /\ UNCHANGED heap
              [] outcome = "grading fails" ->
                    /\ heap' = drafted
                    /\ Raise("ExternalCallError", <<>>)
                    /\ externalFailed' = TRUE
                    /\ inst' = [inst EXCEPT ![i].pc = "raised"]
              [] OTHER ->
                    LET branch == WriteDialogueBranch(outcome, inst[i].search_iterations)
                    IN  /\ heap' = drafted
                        /\ UNCHANGED externalFailed
                        /\ CASE branch = "accept" ->
                                   /\ inst' = [inst EXCEPT
                                          ![i].pc = "END",
                                          ![i].grade = outcome,
                                          ![i].completed_segments = <<ref>>]
                                   /\ UNCHANGED <<pc, error>>
                             [] branch = "revise" ->
                                   /\ inst' = [inst EXCEPT
                                          ![i].pc = "search_web",
                                          ![i].grade = outcome,
                                          ![i].search_queries =
                                              FollowUpQueries(inst[i].searches)]
                                   /\ UNCHANGED <<pc, error>>
                             [] OTHER ->
                                   /\ inst' = [inst EXCEPT ![i].pc = "raised",
                                                           ![i].grade = outcome]
                                   /\ Raise(branch, <<>>)
    /\ UNCHANGED <<appVars, callVars, serverVars,
                   request, configurable, superstep, scheduled, ran, writes, segments,
                   completed_segments, final_transcript, runs>>

\* write_intro_outro (graph.py:154-199)
WriteIntroOutro ==
    /\ pc = "RUNNING"
    /\ "write_intro_outro" \in scheduled
    /\ LET intro_segment == FirstTitled(heap, segments, "intro")
           outro_segment == FirstTitled(heap, segments, "outro")
           writeIntro == /\ intro_segment # <<>>
                         /\ ~Contains(heap, completed_segments, intro_segment[1])
           heap1 == IF writeIntro
                    THEN SetDialogue(heap, intro_segment[1], OpeningText)
                    ELSE heap
           writeOutro == /\ outro_segment # <<>>
                         /\ ~Contains(heap1, completed_segments, outro_segment[1])
           heap2 == IF writeOutro
                    THEN SetDialogue(heap1, outro_segment[1], ClosingText)
                    ELSE heap1
           new_completed == (IF writeIntro THEN intro_segment ELSE <<>>)
                            \o (IF writeOutro THEN outro_segment ELSE <<>>)
       IN  \E outcome \in {"intro fails", "outro fails", "ok"} :
            CASE outcome = "intro fails" ->
                    /\ writeIntro
                    /\ Raise("ExternalCallError", <<>>)
                    /\ externalFailed' = TRUE
                    /\ UNCHANGED <<heap, writes, scheduled, ran, runs>>
              [] outcome = "outro fails" ->
                    /\ writeOutro
                    /\ heap' = heap1
                    /\ Raise("ExternalCallError", <<>>)
                    /\ externalFailed' = TRUE
                    /\ UNCHANGED <<writes, scheduled, ran, runs>>
              [] OTHER ->
                    /\ heap' = heap2
                    /\ writes' = [writes EXCEPT
                           !.completed_segments = completed_segments \o new_completed]
                    /\ Finish("write_intro_outro")
                    /\ UNCHANGED <<pc, error, externalFailed>>
    /\ UNCHANGED <<appVars, callVars, serverVars,
                   request, configurable, superstep, segments, completed_segments,
                   final_transcript, inst>>

\* compile_final_transcript (graph.py:201-213)
CompileFinalTranscript ==
    /\ pc = "RUNNING"
    /\ "compile_final_transcript" \in scheduled
    /\ LET result == CompileTranscript(Values(heap, segments),
                                       Values(heap, completed_segments))
           \* segment.dialogue = completed_segments[segment.title], in plan order
           assigned == [r \in DOMAIN heap |->
                          IF \E k \in DOMAIN segments : segments[k] = r
                          THEN [heap[r] EXCEPT !.dialogue =
                                   result.dialogues[CHOOSE k \in DOMAIN segments :
                                                       segments[k] = r]]
                          ELSE heap[r]]
       IN  IF result.missing # <<>>
           THEN /\ Raise("ValueError: Missing processed segments", result.missing)
                /\ UNCHANGED <<heap, writes, scheduled, ran, runs>>
           ELSE /\ heap' = assigned
                /\ writes' = [writes EXCEPT
                       !.final_transcript = <<result.final_transcript>>]
                /\ Finish("compile_final_transcript")
                /\ UNCHANGED <<pc, error>>
    /\ UNCHANGED <<appVars, callVars, serverVars,
                   request, configurable, superstep, segments, completed_segments,
                   final_transcript, inst, externalFailed>>

\* the sub-graph instance entered at search_web instead of generate_queries
StartInstance_AtSearch(send) ==
    [pc |-> "search_web", segment |-> send.segment,
     search_iterations |-> send.search_iterations, search_queries |-> <<>>,
     source_str |-> <<>>, completed_segments |-> <<>>,
     host |-> send.host, guest |-> send.guest, searches |-> 0, grade |-> ""]

\* the sub-graph instance a Send starts: SegmentState from the payload
StartInstance(send) ==
    [pc |-> "generate_queries", segment |-> send.segment,
     search_iterations |-> send.search_iterations, search_queries |-> <<>>,
     source_str |-> <<>>, completed_segments |-> <<>>,
     host |-> send.host, guest |-> send.guest, searches |-> 0, grade |-> ""]

\* the outputs of the instances left out of the merge
InstanceOutputs_Dropped(instances) == <<>>

RECURSIVE InstanceOutputs(_)
\* the SegmentOutputState of the instances of this superstep, in Send order
InstanceOutputs(instances) ==
    IF instances = <<>> THEN <<>>
    ELSE (IF Head(instances).pc = "END" THEN Head(instances).completed_segments ELSE <<>>)
         \o InstanceOutputs(Tail(instances))

\* the nodes the edges of the graph schedule after the nodes that ran (graph.py:235-246)
NextScheduled(nodesRan, instancesRan) ==
    (IF "generate_podcast_plan" \in nodesRan THEN {RouteAfterPlan} ELSE {})
    \cup (IF instancesRan THEN {"write_intro_outro"} ELSE {})
    \cup (IF "write_intro_outro" \in nodesRan THEN {"compile_final_transcript"} ELSE {})

\* the end of a superstep: every task has finished; the updates are merged (the parent
\* nodes' first, then the instances' in Send order) and the next tasks are scheduled
EndSuperstep ==
    /\ pc = "RUNNING"
    /\ scheduled = {}
    /\ \A i \in DOMAIN inst : inst[i].pc \in {"END", "joined"}
    /\ LET instancesRan == \E i \in DOMAIN inst : inst[i].pc = "END"
           next == NextScheduled(ran, instancesRan)
       IN  /\ segments' = IF writes.segments # <<>> THEN writes.segments[1] ELSE segments
           /\ completed_segments' =
                  Reduce(Reduce(completed_segments, writes.completed_segments),
                         InstanceOutputs(inst))
           /\ final_transcript' = IF writes.final_transcript # <<>>
                                  THEN writes.final_transcript ELSE final_transcript
           /\ inst' = IF writes.goto # <<>>
                      THEN [k \in DOMAIN writes.goto |-> StartInstance(writes.goto[k])]
                      ELSE [i \in DOMAIN inst |-> [inst[i] EXCEPT !.pc = "joined"]]
           /\ scheduled' = next
           /\ pc' = IF next = {} /\ writes.goto = <<>> THEN "END" ELSE "RUNNING"
    /\ ran' = {}
    /\ writes' = NoWrites
    /\ superstep' = superstep + 1
    /\ UNCHANGED <<appVars, callVars, serverVars,
                   request, configurable, heap, error, runs, externalFailed>>

----------------------------------------------------------------------------
(* The request handler around the workflow (app.py) *)

\* str(e)
ErrorText(e) == <<e.kind>> \o e.titles

\* "if not transcript" with None taken for a transcript
Truthy_NotNone(transcript) == transcript # <<>>

\* the truth value of final_state.values.get('final_transcript') (app.py:227-229):
\* None (the key was never written) and "" are false
Truthy(transcript) == transcript # <<>> /\ transcript[1] # EmptyText

\* the ResponsePayload of process_podcast_request's except branch (app.py:163-168)
ErrorResponse(e) ==
    [status |-> "error",
     message |-> <<"Failed to generate podcast: ">> \o ErrorText(e),
     results |-> <<>>]

\* the ResponsePayload of the success path (app.py:131-151)
SuccessResponse ==
    [status |-> "success", message |-> <<"Podcast generated successfully">>,
     results |-> <<"audio", "text">>]

\* What can happen after a transcript was read: preprocess_transcript finds no speaker
\* line in it, a speech synthesis call raises, the upload raises, or all succeed.
AudioOutcomes == {"no conversation", "synthesis fails", "upload fails", "ok"}

\* run_podcast_generator from the end of graph.astream, and the upload that follows
\* it (app.py:223-243, 126): the exception that leaves process_podcast_request's try block
\* (NoError when none does) and whether speech synthesis was started
RunPodcastGenerator(outcome) ==
    IF pc = "ERROR" THEN [raised |-> error, synthesized |-> FALSE]
    ELSE IF ~Truthy(final_transcript)
    THEN [raised |-> [kind |-> "ValueError: Failed to generate transcript",
                      titles |-> <<>>],
          synthesized |-> FALSE]
    ELSE CASE outcome = "no conversation" ->
                 [raised |-> [kind |-> "ValueError: No conversation segments found in transcript",
                              titles |-> <<>>],
                  synthesized |-> FALSE]
           [] outcome = "synthesis fails" ->
                 [raised |-> [kind |-> "ExternalCallError: speech synthesis",
                              titles |-> <<>>],
                  synthesized |-> TRUE]
           [] outcome = "upload fails" ->
                 [raised |-> [kind |-> "ExternalCallError: upload", titles |-> <<>>],
                  synthesized |-> TRUE]
           [] OTHER -> [raised |-> NoError, synthesized |-> TRUE]

\* process_podcast_request once the graph run has ended (app.py:90-187)
ProcessPodcastRequest ==
    /\ pc \in {"END", "ERROR"}
    /\ response = <<>>
    /\ \E outcome \in AudioOutcomes, webhook_url \in WebhookUrls :
        LET run == RunPodcastGenerator(outcome)
            payload == IF run.raised # NoError THEN ErrorResponse(run.raised)
                       ELSE SuccessResponse
        IN  /\ response' = <<payload>>
            /\ webhook' = IF webhook_url # <<>> THEN <<payload>> ELSE <<>>
            /\ synthesized' = run.synthesized
    /\ UNCHANGED <<callVars, serverVars, request, configurable, pc, superstep, scheduled, ran, writes,
                   heap, segments, completed_segments, final_transcript, inst, error,
                   runs, externalFailed>>

\* generate_podcast when process_podcast_request raises before the graph is run: the
\* payload's inputs do not validate (app.py:93-94, 399-410)
GeneratePodcast ==
    /\ pc = "RUNNING"
    /\ superstep = 0
    /\ "generate_podcast_plan" \in scheduled
    /\ response = <<>>
    /\ pc' = "NOT RUN"
    /\ error' = [kind |-> "ValidationError", titles |-> <<>>]
    /\ response' = <<[status |-> "error",
                      message |-> <<"Failed to process request: ">> \o ErrorText(error'),
                      results |-> <<>>]>>
    /\ UNCHANGED <<callVars, serverVars, webhook, synthesized, request, configurable, superstep,
                   scheduled, ran, writes, heap, segments, completed_segments,
                   final_transcript, inst, runs, externalFailed>>

Next ==
    \/ GeneratePodcastPlan
    \/ \E i \in DOMAIN inst : GenerateQueries(i)
    \/ \E i \in DOMAIN inst : SearchWeb(i)
    \/ \E i \in DOMAIN inst : WriteDialogue(i)
    \/ WriteIntroOutro
    \/ CompileFinalTranscript
    \/ EndSuperstep
    \/ ProcessPodcastRequest
    \/ GeneratePodcast

Spec == Init /\ [][Next]_vars

----------------------------------------------------------------------------
(* The Transcript Compiler on its own: compile_final_transcript applied to any    *)
(* planned list and any accumulator, each accumulator entry an object of its own. *)

CompletedDialogues == {EmptyText, <<"said">>}

CompilerPlans == {plan \in Plans(MaxSegments) : \A i \in DOMAIN plan : ~plan[i].research}

\* The accumulators of up to MaxCompleted entries, in any arrival order, with or
\* without repeated entries: entries of one title carry one dialogue, as the entries of
\* a run do (they are the plan's segments, whose titles are unique).
Accumulators ==
    UNION {{acc \in [1..m -> [title : Titles, research : {FALSE},
                              dialogue : CompletedDialogues]] :
               \A i, j \in 1..m : acc[i].title = acc[j].title => acc[i] = acc[j]} :
              m \in 0..MaxCompleted}

CompilerInit ==
    /\ request = [host |-> "Ava", guest |-> "Ben"]
    /\ configurable = [max_search_depth |-> DefaultMaxSearchDepth]
    /\ pc = "RUNNING"
    /\ superstep = 0
    /\ scheduled = {"compile_final_transcript"}
    /\ ran = {}
    /\ writes = NoWrites
    /\ \E plan \in CompilerPlans : \E accumulator \in Accumulators :
        /\ heap = plan \o accumulator
        /\ segments = [k \in DOMAIN plan |-> k]
        /\ completed_segments = [k \in DOMAIN accumulator |-> Len(plan) + k]
    /\ final_transcript = <<>>
    /\ inst = <<>>
    /\ error = NoError
    /\ runs = [generate_podcast_plan |-> 0, write_intro_outro |-> 0,
               compile_final_transcript |-> 0]
    /\ externalFailed = FALSE
    /\ response = <<>>
    /\ webhook = <<>>
    /\ synthesized = FALSE
    /\ args = <<>>
    /\ returned = <<>>
    /\ search = NoSearch
    /\ os_environ = NoKeys
    /\ files = {}
    /\ handlers = <<>>

CompilerNext ==
    \/ CompileFinalTranscript
    \/ EndSuperstep

CompilerSpec == CompilerInit /\ [][CompilerNext]_vars

----------------------------------------------------------------------------
(* Functions applied on their own: no workflow is running *)

NoWorkflow ==
    /\ request = [host |-> "Ava", guest |-> "Ben"]
    /\ configurable = [max_search_depth |-> DefaultMaxSearchDepth]
    /\ pc = "IDLE"
    /\ superstep = 0
    /\ scheduled = {}
    /\ ran = {}
    /\ writes = NoWrites
    /\ heap = <<>>
    /\ segments = <<>>
    /\ completed_segments = <<>>
    /\ final_transcript = <<>>
    /\ inst = <<>>
    /\ error = NoError
    /\ runs = [generate_podcast_plan |-> 0, write_intro_outro |-> 0,
               compile_final_transcript |-> 0]
    /\ externalFailed = FALSE
    /\ response = <<>>
    /\ webhook = <<>>
    /\ synthesized = FALSE
    /\ search = NoSearch
    /\ os_environ = NoKeys
    /\ files = {}
    /\ handlers = <<>>

workflowVars == <<request, configurable, pc, superstep, scheduled, ran, writes, heap,
                  segments, completed_segments, final_transcript, inst, error, runs,
                  externalFailed>>

----------------------------------------------------------------------------
(* Configuration.from_runnable_config (configuration.py:50-63).  A value is None  *)
(* (<<>>), an int or a str: <<"int", numeral>> or <<"str", characters>>.          *)

None == <<>>
IntValue(numeral) == <<"int", numeral>>
StrValue(characters) == <<"str", characters>>

\* the values Python takes for false: None, 0 and ""
Falsy(v) == v \in {None, IntValue("0"), StrValue("")}

\* two of the dataclass's fields, an int and a str, with their defaults
\* (configuration.py:43, 47)
ConfigFields == {"max_search_depth", "writer_model"}
ConfigDefault ==
    [max_search_depth |-> IntValue(NumeralOf[DefaultMaxSearchDepth]),
     writer_model |-> StrValue("claude-3-5-sonnet-latest")]

\* f.name.upper()
Upper(name) ==
    CASE name = "max_search_depth" -> "MAX_SEARCH_DEPTH"
      [] name = "writer_model" -> "WRITER_MODEL"
      [] OTHER -> name

\* os.environ: a dict of strings over some of the names
EnvStrings == {"", "2", "gpt-4o"}
Environs ==
    UNION {[names -> EnvStrings] : names \in SUBSET {Upper(f) : f \in ConfigFields}}

\* the values a caller can pass for a field in config["configurable"]
OverrideValues ==
    [max_search_depth |-> {IntValue("0"), IntValue("3")}, writer_model |-> {StrValue(""), StrValue("o1")}]

\* config["configurable"]: a dict over some of the fields
Configurables ==
    UNION {{c \in [given -> UNION {OverrideValues[f] : f \in ConfigFields}] :
               \A f \in given : c[f] \in OverrideValues[f]} :
              given \in SUBSET ConfigFields}

\* the RunnableConfig: None or an empty dict (<<>>), or a dict with "configurable"
RunnableConfigs == {<<>>} \cup {[configurable |-> c] : c \in Configurables}

\* dict.get(key, default)
Get(dict, key, default) == IF key \in DOMAIN dict THEN dict[key] ELSE default

\* the Configuration from_runnable_config builds: the field values
Configuration(config, environ) ==
    LET given == IF "configurable" \in DOMAIN config THEN config.configurable ELSE <<>>
        values == [f \in ConfigFields |->
                      IF Upper(f) \in DOMAIN environ THEN StrValue(environ[Upper(f)])
                      ELSE Get(given, f, None)]
    IN  [f \in ConfigFields |->
            IF ~Falsy(values[f]) THEN values[f] ELSE ConfigDefault[f]]

ConfigInit ==
    /\ NoWorkflow
    /\ args \in [config : RunnableConfigs, environ : Environs]
    /\ returned = <<>>

\* one call of Configuration.from_runnable_config
FromRunnableConfig ==
    /\ returned = <<>>
    /\ returned' = <<Configuration(args.config, args.environ)>>
    /\ UNCHANGED <<workflowVars, appVars, serverVars, args, search>>

ConfigNext == FromRunnableConfig

ConfigSpec == ConfigInit /\ [][ConfigNext]_vars

----------------------------------------------------------------------------
(* deduplicate_and_format_sources (utils.py:15-56).  A text is a sequence of      *)
(* tokens: the fixed pieces of the format, the fields of a source, single        *)
(* characters of a source's raw content, and the white space " " and "\n".        *)

\* The documents a search can return: two of them share a URL and differ in title
\* and content; raw_content is missing, None, or a str of five characters.
Documents ==
    {[url |-> "u1", title |-> "t1", content |-> "c1"],
     [url |-> "u1", title |-> "t2", content |-> "c2", raw_content |-> None],
     [url |-> "u2", title |-> "t3", content |-> "c3",
      raw_content |-> StrValue(<<"a", "b", "c", "d", "e">>)]}

\* a search response: the dict of tavily_search_async's docstring, cut to 'results'
SearchResponses ==
    UNION {[results : [1..n -> Documents]] : n \in 0..MaxResults}

\* the lists of search responses
SearchResponseLists == UNION {[1..n -> SearchResponses] : n \in 0..MaxResponses}

\* the values of max_tokens_per_source the function is applied to
Budgets == {1, 2}

RECURSIVE Flatten(_)
\* sources_list: the results of every response, in order (utils.py:35-37)
Flatten(search_response) ==
    IF search_response = <<>> THEN <<>>
    ELSE Head(search_response).results \o Flatten(Tail(search_response))

\* the first source of a URL
SourceOf_First(sources_list, url) ==
    sources_list[CHOOSE k \in DOMAIN sources_list :
                     /\ sources_list[k].url = url
                     /\ \A j \in 1..(k - 1) : sources_list[j].url # url]

\* the value a dict comprehension leaves under a key: the last source of the URL
SourceOf(sources_list, url) ==
    sources_list[CHOOSE k \in DOMAIN sources_list :
                     /\ sources_list[k].url = url
                     /\ \A j \in (k + 1)..Len(sources_list) : sources_list[j].url # url]

\* the unique sources in the order of their URLs' last occurrences
UniqueSources_LastSeenOrder(sources_list) ==
    LET indices == [k \in DOMAIN sources_list |-> k]
        lasts == SelectSeq(indices, LAMBDA k :
                     \A j \in (k + 1)..Len(sources_list) :
                         sources_list[j].url # sources_list[k].url)
    IN  [k \in DOMAIN lasts |-> sources_list[lasts[k]]]

\* unique_sources.values() (utils.py:39, 42): a dict keeps its keys in the order in
\* which they were first inserted
UniqueSources(sources_list) ==
    LET indices == [k \in DOMAIN sources_list |-> k]
        firsts == SelectSeq(indices, LAMBDA k :
                      \A j \in 1..(k - 1) : sources_list[j].url # sources_list[k].url)
    IN  [k \in DOMAIN firsts |-> SourceOf(sources_list, sources_list[firsts[k]].url)]

WhiteSpace == {" ", "\n"}

RECURSIVE Strip(_)
\* str.strip()
Strip(text) ==
    IF text = <<>> THEN <<>>
    ELSE IF Head(text) \in WhiteSpace THEN Strip(Tail(text))
    ELSE IF text[Len(text)] \in WhiteSpace THEN Strip(SubSeq(text, 1, Len(text) - 1))
    ELSE text

\* the raw content cut at max_tokens_per_source characters
RawContent_CutAtBudget(source, max_tokens_per_source) ==
    LET char_limit == max_tokens_per_source
        value == Get(source, "raw_content", StrValue(<<>>))
        raw_content == IF value = None THEN <<>> ELSE value[2]
    IN  IF Len(raw_content) > char_limit
        THEN SubSeq(raw_content, 1, char_limit) \o <<"... [truncated]">>
        ELSE raw_content

\* the raw content emitted for a source (utils.py:47-53)
RawContent(source, max_tokens_per_source) ==
    LET char_limit == max_tokens_per_source * 4
        value == Get(source, "raw_content", StrValue(<<>>))
        raw_content == IF value = None THEN <<>> ELSE value[2]
    IN  IF Len(raw_content) > char_limit
        THEN SubSeq(raw_content, 1, char_limit) \o <<"... [truncated]">>
        ELSE raw_content

\* the decimal numeral an f-string prints for max_tokens_per_source
Numeral(n) == IF n = MaxTokensPerSource THEN "500" ELSE NumeralOf[n]

\* the text emitted for one source (utils.py:43-54)
FormatSource(source, max_tokens_per_source, include_raw_content) ==
    <<"Source ", source.title, ":", "\n", "===", "\n">>
    \o <<"URL: ", source.url, "\n", "===", "\n">>
    \o <<"Most relevant content from source: ", source.content, "\n", "===", "\n">>
    \o (IF include_raw_content
        THEN <<"Full source content limited to ", Numeral(max_tokens_per_source),
               " tokens:", " ">>
             \o RawContent(source, max_tokens_per_source) \o <<"\n", "\n">>
        ELSE <<>>)

RECURSIVE FormatAll(_, _, _)
FormatAll(sources, max_tokens_per_source, include_raw_content) ==
    IF sources = <<>> THEN <<>>
    ELSE FormatSource(Head(sources), max_tokens_per_source, include_raw_content)
         \o FormatAll(Tail(sources), max_tokens_per_source, include_raw_content)

\* the string deduplicate_and_format_sources returns
FormattedSources(search_response, max_tokens_per_source, include_raw_content) ==
    Strip(<<"Sources:", "\n", "\n">>
          \o FormatAll(UniqueSources(Flatten(search_response)),
                       max_tokens_per_source, include_raw_content))

AggregatorInit ==
    /\ NoWorkflow
    /\ args \in [search_response : SearchResponseLists,
                  max_tokens_per_source : Budgets,
                  include_raw_content : BOOLEAN]
    /\ returned = <<>>

\* one call of deduplicate_and_format_sources
DeduplicateAndFormatSources ==
    /\ returned = <<>>
    /\ returned' = <<FormattedSources(args.search_response, args.max_tokens_per_source,
                                      args.include_raw_content)>>
    /\ UNCHANGED <<workflowVars, appVars, serverVars, args, search>>

AggregatorNext == DeduplicateAndFormatSources

AggregatorSpec == AggregatorInit /\ [][AggregatorNext]_vars

----------------------------------------------------------------------------
(* preprocess_transcript and the start of generate_podcast_audio                  *)
(* (podcast_generator.py:17-51, 119-144).  A transcript is a sequence of tokens:  *)
(* a speaker's name, ":", "*", a word, the blank " " and the line break "\n".      *)

TranscriptTokens == {"Ava", "Ben", ":", "*", "w", " ", "\n"}

Transcripts == UNION {[1..n -> TranscriptTokens] : n \in 0..MaxTranscript}

\* re.sub with the asterisks left in place
RemoveAsterisks_Kept(text) == text

\* re.sub(r'\*+', '', transcript)
RemoveAsterisks(text) == SelectSeq(text, LAMBDA token : token # "*")

RECURSIVE Split(_)
\* transcript.split('\n')
Split(text) ==
    IF \A k \in DOMAIN text : text[k] # "\n" THEN <<text>>
    ELSE LET k == CHOOSE i \in DOMAIN text :
                      text[i] = "\n" /\ \A j \in 1..(i - 1) : text[j] # "\n"
         IN  <<SubSeq(text, 1, k - 1)>> \o Split(SubSeq(text, k + 1, Len(text)))

\* line.startswith(prefix)
StartsWith(line, prefix) ==
    Len(line) >= Len(prefix) /\ SubSeq(line, 1, Len(prefix)) = prefix

RECURSIVE Remove(_, _)
\* line.replace(old, ''): every occurrence of old is removed, left to right
Remove(line, old) ==
    IF Len(line) < Len(old) THEN line
    ELSE IF StartsWith(line, old) THEN Remove(SubSeq(line, Len(old) + 1, Len(line)), old)
    ELSE <<Head(line)>> \o Remove(Tail(line), old)

RECURSIVE Conversations(_, _, _)
\* the loop over the lines (podcast_generator.py:34-49)
Conversations(lines, host_name, guest_name) ==
    IF lines = <<>> THEN <<>>
    ELSE LET line == Strip(Head(lines))
             rest == Conversations(Tail(lines), host_name, guest_name)
         IN  IF line = <<>> THEN rest
             ELSE IF StartsWith(line, <<host_name, ":">>)
             THEN <<[role |-> "host", text |-> Strip(Remove(line, <<host_name, ":">>))]>>
                  \o rest
             ELSE IF StartsWith(line, <<guest_name, ":">>)
             THEN <<[role |-> "guest", text |-> Strip(Remove(line, <<guest_name, ":">>))]>>
                  \o rest
             ELSE rest

\* the list preprocess_transcript returns
PreprocessTranscript(transcript, host_name, guest_name) ==
    Conversations(Split(RemoveAsterisks(transcript)), host_name, guest_name)

PreprocessInit ==
    /\ NoWorkflow
    /\ args \in [transcript : Transcripts, host_name : {"Ava"}, guest_name : {"Ben"}]
    /\ returned = <<>>

\* generate_podcast_audio up to the test of the conversations
\* (podcast_generator.py:119-144): it raises when there is none and goes on to speech
\* synthesis otherwise
GeneratePodcastAudio ==
    /\ returned = <<>>
    /\ LET conversations ==
               PreprocessTranscript(args.transcript, args.host_name, args.guest_name)
       IN  returned' =
               <<[conversations |-> conversations,
                  raised |-> IF conversations = <<>>
                             THEN "ValueError: No conversation segments found in transcript"
                             ELSE "",
                  synthesis |-> conversations # <<>>]>>
    /\ UNCHANGED <<workflowVars, appVars, serverVars, args, search>>

PreprocessNext == GeneratePodcastAudio

PreprocessSpec == PreprocessInit /\ [][PreprocessNext]_vars

----------------------------------------------------------------------------
(* One search round: tavily_search_async (utils.py:74-117) and the aggregation    *)
(* of its result by the caller (graph.py:41-42 in generate_podcast_plan,          *)
(* graph.py:98-104 in search_web).  asyncio.gather runs the searches as tasks of  *)
(* the event loop: they return in any order.                                      *)

QueryNames == {"q1", "q2"}

\* the query lists of a round
QueryLists == UNION {[1..n -> QueryNames] : n \in 0..MaxQueries}

\* what the provider can answer to a query: a response with one document
ProviderResponses == {[results |-> <<d>>] : d \in Documents}

\* the two callers of tavily_search_async
SearchCallers == {"generate_podcast_plan", "search_web"}

\* the exception that leaves the caller when a search raises: generate_podcast_plan
\* lets the search's own exception through, search_web replaces it (graph.py:101-102)
SearchError(caller) ==
    IF caller = "search_web"
    THEN "ValueError: Unsupported search API"
    ELSE PlanCallError.search_fails

\* gather taken to be ready as soon as one task is done
AllDone_AnyDone(tasks) == \E k \in DOMAIN tasks : tasks[k].status = "done"

\* the awaited gather is ready: every task has returned
AllDone(tasks) == \A k \in DOMAIN tasks : tasks[k].status = "done"

\* the list asyncio.gather returns: the tasks' results in the order of its arguments
GatherResults(tasks) == [k \in DOMAIN tasks |-> tasks[k].response]

SearchInit ==
    /\ NoWorkflow
    /\ args \in [caller : SearchCallers, search_queries : QueryLists]
    /\ returned = <<>>

\* the loop of utils.py:106-113: one search coroutine per query, none started yet
CreateSearchTasks ==
    /\ search.at = "idle"
    /\ search' = [search EXCEPT
           !.at = "created",
           !.tasks = [k \in DOMAIN args.search_queries |->
                        [query |-> args.search_queries[k], status |-> "created",
                         response |-> None]]]
    /\ UNCHANGED <<workflowVars, appVars, serverVars, args, returned>>

\* asyncio.gather(*search_tasks) (utils.py:115): every coroutine becomes a task of
\* the event loop before the caller is suspended
Gather ==
    /\ search.at = "created"
    /\ search' = [search EXCEPT
           !.at = "gather",
           !.tasks = [k \in DOMAIN search.tasks |->
                        [search.tasks[k] EXCEPT !.status = "running"]]]
    /\ UNCHANGED <<workflowVars, appVars, serverVars, args, returned>>

\* one search returns its response
TaskReturns(k) ==
    /\ search.at = "gather"
    /\ search.tasks[k].status = "running"
    /\ \E r \in ProviderResponses :
          search' = [search EXCEPT !.tasks[k].status = "done",
                                   !.tasks[k].response = r,
                                   !.arrived = Append(@, k)]
    /\ UNCHANGED <<workflowVars, appVars, serverVars, args, returned>>

\* one search raises: gather raises in the caller, which leaves by the exception
TaskRaises(k) ==
    /\ search.at = "gather"
    /\ search.tasks[k].status = "running"
    /\ search' = [search EXCEPT !.tasks[k].status = "failed", !.at = "raised"]
    /\ returned' = <<[raised |-> SearchError(args.caller)]>>
    /\ UNCHANGED <<workflowVars, appVars, serverVars, args>>

\* the await of utils.py:115 returns search_docs
GatherReturns ==
    /\ search.at = "gather"
    /\ AllDone(search.tasks)
    /\ search' = [search EXCEPT !.at = "aggregate",
                                !.search_docs = GatherResults(search.tasks)]
    /\ UNCHANGED <<workflowVars, appVars, serverVars, args, returned>>

\* source_str = deduplicate_and_format_sources(search_results,
\* max_tokens_per_source=500) (graph.py:42, 99), include_raw_content True in both
Aggregate ==
    /\ search.at = "aggregate"
    /\ search' = [search EXCEPT !.at = "done"]
    /\ returned' = <<[source_str |->
                        FormattedSources(search.search_docs, MaxTokensPerSource, TRUE)]>>
    /\ UNCHANGED <<workflowVars, appVars, serverVars, args>>

SearchNext ==
    \/ CreateSearchTasks
    \/ Gather
    \/ \E k \in DOMAIN search.tasks : TaskReturns(k)
    \/ \E k \in DOMAIN search.tasks : TaskRaises(k)
    \/ GatherReturns
    \/ Aggregate

SearchSpec == SearchInit /\ [][SearchNext]_vars

----------------------------------------------------------------------------
(* The server: calls of process_podcast_request (app.py:90-187) made by the       *)
(* endpoint for the requests it receives.  A call runs until it awaits; between    *)
(* its awaits the other calls run.  os.environ and the file system belong to the   *)
(* process: every call reads and writes the same ones.                             *)

\* payload.inputs["enso_input"]["api_keys"] and payload.execution_id of the r-th request
ApiKeysOf(r) == <<"keys", NumeralOf[r]>>
ExecutionId(r) == <<"exec", NumeralOf[r]>>

\* tempfile.mktemp(suffix=".mp3") in the call for the r-th request
AudioPath(r) == <<"tmp", NumeralOf[r]>>

\* a call of process_podcast_request as it begins: parsed tells whether EnsoInput and
\* UserInput validated (app.py:93-94); if not, the exception leaves the function
NewHandler(r, parsed) ==
    [at |-> IF parsed THEN "run" ELSE "raised", parsed |-> parsed,
     execution_id |-> ExecutionId(r), api_keys |-> ApiKeysOf(r),
     used |-> {}, transcript |-> FALSE, audio |-> FALSE,
     uploaded |-> FALSE, temp_files |-> <<>>, response |-> <<>>, posted |-> <<>>,
     webhook_failed |-> FALSE]

\* how run_podcast_generator ends (app.py:189-241)
RunOutcomes == {"graph raises", "no transcript", "audio fails", "ok"}

\* the exception with which it ends
RunError(outcome) ==
    [kind |-> CASE outcome = "graph raises" -> "ExternalCallError"
                [] outcome = "no transcript" -> "ValueError: Failed to generate transcript"
                [] OTHER -> "ExternalCallError: speech synthesis",
     titles |-> <<>>]

\* the webhook: the payload has no webhook_url, requests.post returns, or it raises
WebhookOutcomes == {"no url", "delivered", "fails"}

\* ResponsePayload(execution_id=execution_id, ...) (app.py:146-151, 164-169)
ResponsePayload(execution_id, body) ==
    [execution_id |-> execution_id, status |-> body.status, message |-> body.message,
     results |-> body.results]

\* the audio file left out of temp_files
AppendTempFile_Skipped(temp_files, audio_path) == temp_files

\* temp_files.append(audio_path) (app.py:123)
AppendTempFile(temp_files, audio_path) == Append(temp_files, audio_path)

\* the finally block (app.py:180-187): every existing file of temp_files is removed
RemoveTempFiles(existing, temp_files) ==
    existing \ {temp_files[k] : k \in DOMAIN temp_files}

\* the exception of requests.post reaching the handler's except branch
AfterWebhook_Raised(resp, delivered) ==
    IF delivered THEN resp
    ELSE ResponsePayload(resp.execution_id,
                         ErrorResponse([kind |-> "ExternalCallError: webhook",
                                        titles |-> <<>>]))

\* the response returned after the webhook was tried: an exception of requests.post
\* is caught and logged where it is raised (app.py:153-158, 171-176)
AfterWebhook(resp, delivered) == resp

\* the call returns: the response is built, handed to the webhook if the payload has
\* a webhook_url, and returned
Returned(h, body, hook) ==
    LET resp == ResponsePayload(h.execution_id, body)
    IN  [h EXCEPT !.at = "returned",
                  !.response = <<AfterWebhook(resp, hook # "fails")>>,
                  !.posted = IF hook = "no url" THEN <<>> ELSE <<resp>>,
                  !.webhook_failed = (hook = "fails")]

\* the endpoint calls process_podcast_request for a new request: the inputs are
\* validated and set_api_keys writes the request's keys to os.environ (app.py:92-97)
HandleRequest ==
    /\ Len(handlers) < MaxRequests
    /\ \E parsed \in BOOLEAN :
        LET r == Len(handlers) + 1
        IN  /\ handlers' = Append(handlers, NewHandler(r, parsed))
            /\ os_environ' = IF parsed THEN ApiKeysOf(r) ELSE os_environ
    /\ UNCHANGED <<workflowVars, appVars, callVars, files>>

\* an external call made inside run_podcast_generator: the client is built with the
\* keys os.environ holds when the call is made (utils.py:102, voice_clone.py:34)
ExternalCall(r) ==
    /\ handlers[r].at = "run"
    /\ handlers' = [handlers EXCEPT ![r].used = @ \cup {os_environ}]
    /\ UNCHANGED <<workflowVars, appVars, callVars, os_environ, files>>

\* run_podcast_generator ends: it returns the path of the audio file it wrote, or it
\* raises and the call returns the error response (app.py:111-123, 162-187)
RunReturns(r) ==
    /\ handlers[r].at = "run"
    /\ \E outcome \in RunOutcomes :
        IF outcome = "ok"
        THEN /\ handlers' = [handlers EXCEPT
                    ![r].at = "upload",
                    ![r].transcript = TRUE,
                    ![r].audio = TRUE,
                    ![r].temp_files = AppendTempFile(@, AudioPath(r))]
             /\ files' = files \cup {AudioPath(r)}
        ELSE \E hook \in WebhookOutcomes :
             /\ handlers' = [handlers EXCEPT ![r] =
                    Returned([@ EXCEPT !.transcript =
                                 outcome \notin {"graph raises", "no transcript"}],
                             ErrorResponse(RunError(outcome)), hook)]
             /\ files' = RemoveTempFiles(files, handlers[r].temp_files)
    /\ UNCHANGED <<workflowVars, appVars, callVars, os_environ>>

\* upload_to_s3 ends (app.py:125-187): on its return the audio file is removed and
\* the success response returned; when it raises, the error response is returned;
\* the finally block runs in both cases
UploadReturns(r) ==
    /\ handlers[r].at = "upload"
    /\ \E ok \in BOOLEAN, hook \in WebhookOutcomes :
        IF ok
        THEN /\ handlers' = [handlers EXCEPT ![r] =
                    Returned([@ EXCEPT !.uploaded = TRUE], SuccessResponse, hook)]
             /\ files' = RemoveTempFiles(files \ {AudioPath(r)}, handlers[r].temp_files)
        ELSE /\ handlers' = [handlers EXCEPT ![r] =
                    Returned(@, ErrorResponse([kind |-> "ExternalCallError: upload",
                                               titles |-> <<>>]), hook)]
             /\ files' = RemoveTempFiles(files, handlers[r].temp_files)
    /\ UNCHANGED <<workflowVars, appVars, callVars, os_environ>>

\* no request has been received: no workflow is running and no function is applied
HandlerInit ==
    /\ NoWorkflow
    /\ args = <<>>
    /\ returned = <<>>

HandlerNext ==
    \/ HandleRequest
    \/ \E r \in DOMAIN handlers : ExternalCall(r)
    \/ \E r \in DOMAIN handlers : RunReturns(r)
    \/ \E r \in DOMAIN handlers : UploadReturns(r)

HandlerSpec == HandlerInit /\ [][HandlerNext]_vars

----------------------------------------------------------------------------
(* Properties *)

Terminated(i) == inst[i].pc \in {"END", "joined"}

\* C1: provided every external call returns, every sub-workflow instance reaches
\* ACCEPT whatever grades it receives: in a run where no external call has failed, no
\* instance ends by raising.
C1_EveryInstanceAccepts ==
    ~externalFailed => \A i \in DOMAIN inst : inst[i].pc # "raised"

\* C2: after DRAFT_AND_GRADE the instance is at ACCEPT when the grade is pass or the
\* iteration counter has reached max_search_depth, and otherwise it is back at SEARCH
\* with the follow-up queries: a fail grade below the depth is neither accepted nor an
\* error.
C2_TransitionRule ==
    \A i \in DOMAIN inst :
        inst[i].grade # "" =>
            IF \/ inst[i].grade = "pass"
               \/ inst[i].search_iterations >= configurable.max_search_depth
            THEN Terminated(i)
            ELSE /\ inst[i].pc = "search_web"
                 /\ inst[i].search_queries = FollowUpQueries(inst[i].searches)

\* C3: an instance run with max_search_depth = d executes at most d + 1 SEARCH
\* transitions.
C3_SearchBound ==
    \A i \in DOMAIN inst : inst[i].searches <= configurable.max_search_depth + 1

\* C3 witness: an instance has searched, drafted and been accepted.
C3_Witness ==
    \E i \in DOMAIN inst : inst[i].pc = "END" /\ inst[i].searches >= 1

\* C4: neither the Intro/Outro Stage nor the Transcript Compiler runs while a
\* dispatched instance is still in progress.
C4_NoPartialFanIn ==
    (runs.write_intro_outro > 0 \/ runs.compile_final_transcript > 0) =>
        \A i \in DOMAIN inst : Terminated(i)

PlannedTitles == {heap[segments[k]].title : k \in DOMAIN segments}
AccumulatedTitles == {heap[completed_segments[k]].title : k \in DOMAIN completed_segments}
CompilerHasRun == runs.compile_final_transcript > 0 \/ pc = "ERROR"

\* C5: when planned titles are absent from the accumulator, the Transcript Compiler
\* fails with the missing-segments error, the error names every absent planned title,
\* each once and no other, and no transcript is produced.
C5_MissingSegments ==
    (CompilerHasRun /\ PlannedTitles \ AccumulatedTitles # {}) =>
        /\ pc = "ERROR"
        /\ error.kind = "ValueError: Missing processed segments"
        /\ {error.titles[k] : k \in DOMAIN error.titles} = PlannedTitles \ AccumulatedTitles
        /\ Len(error.titles) = Cardinality(PlannedTitles \ AccumulatedTitles)
        /\ final_transcript = <<>>
        /\ writes.final_transcript = <<>>

\* C5 witness: the compiler has failed on a plan that lacks two titles.
C5_Witness ==
    /\ error.kind = "ValueError: Missing processed segments"
    /\ Cardinality(PlannedTitles \ AccumulatedTitles) >= 2
    /\ AccumulatedTitles \cap PlannedTitles # {}

RECURSIVE BlankLineSeparated(_)
\* the blocks in order, a blank line between consecutive blocks
BlankLineSeparated(blocks) ==
    IF blocks = <<>> THEN <<>>
    ELSE IF Len(blocks) = 1 THEN blocks[1]
    ELSE BlankLineSeparated(SubSeq(blocks, 1, Len(blocks) - 1))
             \o <<"\n\n">> \o blocks[Len(blocks)]

\* the dialogues the accumulator holds for a title
DialoguesOf(title) ==
    {heap[completed_segments[k]].dialogue :
        k \in {j \in DOMAIN completed_segments : heap[completed_segments[j]].title = title}}

\* the transcript the compiler returned
ReturnedTranscript ==
    IF writes.final_transcript # <<>> THEN writes.final_transcript ELSE final_transcript

\* the accumulator's entries in another arrival order
Rearranged(p) == [k \in DOMAIN completed_segments |-> heap[completed_segments[p[k]]]]

\* C6: when every planned title is present in the accumulator, the compiler succeeds,
\* the transcript is the planned segments' dialogues (for each planned title, the
\* dialogue the accumulator holds for it) in plan order with a blank line between
\* them, and compiling any permutation of the accumulator gives the same transcript.
C6_PlanOrder ==
    (CompilerHasRun /\ PlannedTitles \subseteq AccumulatedTitles) =>
        /\ pc # "ERROR"
        /\ runs.compile_final_transcript > 0
        /\ \E blocks \in [DOMAIN segments -> CompletedDialogues] :
              /\ \A k \in DOMAIN segments :
                    blocks[k] \in DialoguesOf(heap[segments[k]].title)
              /\ ReturnedTranscript = <<BlankLineSeparated(blocks)>>
        /\ \A p \in Permutations(DOMAIN completed_segments) :
              <<CompileTranscript(Values(heap, segments), Rearranged(p)).final_transcript>>
                  = ReturnedTranscript

\* C6 witness: the compiler has succeeded on an accumulator whose first two entries
\* arrived in the reverse of their plan order, with different dialogues.
C6_Witness ==
    /\ runs.compile_final_transcript > 0
    /\ Len(segments) >= 2
    /\ Len(completed_segments) >= 2
    /\ heap[completed_segments[1]].title = heap[segments[2]].title
    /\ heap[completed_segments[2]].title = heap[segments[1]].title
    /\ heap[completed_segments[1]].dialogue # heap[completed_segments[2]].dialogue

IsIntroOrOutro(s) == Lower(s.title) \in {"intro", "outro"}

\* C7: for a plan whose intro and outro are not research-required and whose other
\* segments are, a finished run has the intro written by the Intro/Outro Stage as the
\* opening, the outro as the closing, every other segment drafted by its instance,
\* and the final transcript is these dialogues in plan order.
C7_IntroOutroWritten ==
    (/\ pc = "END"
     /\ \A k \in DOMAIN segments :
           heap[segments[k]].research = ~IsIntroOrOutro(heap[segments[k]]))
    => /\ \A k \in DOMAIN segments :
            LET s == heap[segments[k]]
            IN  /\ Lower(s.title) = "intro" => s.dialogue = OpeningText
                /\ Lower(s.title) = "outro" => s.dialogue = ClosingText
                /\ s.research => s.dialogue # EmptyText
       /\ final_transcript =
             <<BlankLineSeparated([k \in DOMAIN segments |-> heap[segments[k]].dialogue])>>

\* C8: the completed-segments accumulator never holds two entries of one title.
C8_OneEntryPerTitle ==
    \A j, k \in DOMAIN completed_segments :
        heap[completed_segments[j]].title = heap[completed_segments[k]].title => j = k

\* the instance dispatched for a segment
InstanceOf(ref) == CHOOSE i \in DOMAIN inst : inst[i].segment = ref

\* C9: with distinct plan titles the final transcript does not depend on how the
\* concurrent instances interleave or in which order they complete: it is determined
\* by the plan and the instances' results, every research-required segment's block
\* being the draft its own instance was accepted with.
C9_TranscriptDetermined ==
    pc = "END" =>
        final_transcript =
            <<BlankLineSeparated(
                [k \in DOMAIN segments |->
                    IF heap[segments[k]].research
                    THEN DraftText(segments[k], inst[InstanceOf(segments[k])].searches)
                    ELSE heap[segments[k]].dialogue])>>

ResearchRequired == {segments[k] : k \in {j \in DOMAIN segments : heap[segments[j]].research}}

\* C10: the Planning Stage dispatches one instance for each research-required planned
\* segment and none for any other, and an instance starts with iteration counter 0
\* and the host and guest names of the request.
C10_Dispatch ==
    /\ superstep = 0 => inst = <<>>
    /\ superstep >= 1 =>
          /\ {inst[i].segment : i \in DOMAIN inst} = ResearchRequired
          /\ Len(inst) = Cardinality(ResearchRequired)
    /\ \A i \in DOMAIN inst :
          /\ inst[i].host = request.host
          /\ inst[i].guest = request.guest
          /\ inst[i].pc = "generate_queries" =>
                inst[i].search_iterations = 0 /\ inst[i].searches = 0

\* C10 witness: the instances of a plan that also has a segment without research have
\* just been dispatched.
C10_Witness ==
    /\ superstep = 1
    /\ Len(inst) >= 1
    /\ \A i \in DOMAIN inst : inst[i].pc = "generate_queries"
    /\ \E k \in DOMAIN segments : ~heap[segments[k]].research

PlanCallErrors == {PlanCallError[c] : c \in DOMAIN PlanCallError}

\* C11: when a call of the Planning Stage (query generation, web search or segment
\* generation) has failed, the run has ended with that error, no instance was or is
\* ever dispatched, and neither the Intro/Outro Stage nor the Transcript Compiler has
\* run or is scheduled.
C11_PlanFailureAborts ==
    error.kind \in PlanCallErrors =>
        /\ pc = "ERROR"
        /\ inst = <<>>
        /\ writes.goto = <<>>
        /\ runs.generate_podcast_plan = 0
        /\ runs.write_intro_outro = 0
        /\ runs.compile_final_transcript = 0
        /\ scheduled \cap {"write_intro_outro", "compile_final_transcript"} = {}
        /\ final_transcript = <<>>

\* C11 witness: the planning stage's web search has failed and the request has been
\* answered.
C11_Witness ==
    /\ error.kind = PlanCallError.search_fails
    /\ response # <<>>

\* C12: when an instance has failed (one of its generation, grading or search calls
\* raised), the run has ended with the error: the instance was not accepted, nothing
\* runs after it, no final transcript exists or is produced, and the request is
\* answered with an error, without audio.
C12_InstanceFailureIsFatal ==
    \A i \in DOMAIN inst :
        inst[i].pc = "raised" =>
            /\ pc = "ERROR"
            /\ error # NoError
            /\ inst[i].completed_segments = <<>>
            /\ final_transcript = <<>>
            /\ writes.final_transcript = <<>>
            /\ response # <<>> => response[1].status = "error" /\ ~synthesized

\* C12 witness: an instance's call has failed after another instance was accepted, and
\* the request has been answered.
C12_Witness ==
    /\ externalFailed
    /\ \E i, j \in DOMAIN inst : inst[i].pc = "raised" /\ inst[j].pc = "END"
    /\ response # <<>>

\* the value the stated resolution order gives a field: the per-call override when
\* one is given, otherwise the environment value when one is set, otherwise the
\* default.  An empty or zero value counts as not given and not set.
StatedResolution(f) ==
    LET given == IF "configurable" \in DOMAIN args.config
                 THEN args.config.configurable ELSE <<>>
        override == Get(given, f, None)
        environment == IF Upper(f) \in DOMAIN args.environ
                       THEN StrValue(args.environ[Upper(f)]) ELSE None
    IN  IF ~Falsy(override) THEN override
        ELSE IF ~Falsy(environment) THEN environment
        ELSE ConfigDefault[f]

\* C13: every field of the resolved configuration has the per-call override when one
\* is given, otherwise the environment value when one is set, otherwise the default.
C13_OverrideWins ==
    returned # <<>> => \A f \in ConfigFields : returned[1][f] = StatedResolution(f)

\* the positions of the output at which a source's URL is emitted
UrlPositions(text) == {k \in DOMAIN text : text[k] = "URL: "}

\* C14: the Source Aggregator's output contains each distinct URL of the input
\* exactly once and no other, and the title and the content emitted with a URL are
\* those of the URL's last occurrence in the flattened input (responses in order,
\* results in order within each response).
C14_LastOccurrencePerUrl ==
    returned # <<>> =>
        LET text == returned[1]
            sources_list == Flatten(args.search_response)
            urls == {sources_list[k].url : k \in DOMAIN sources_list}
            last(url) == sources_list[CHOOSE k \in DOMAIN sources_list :
                             /\ sources_list[k].url = url
                             /\ \A j \in DOMAIN sources_list :
                                   sources_list[j].url = url => j <= k]
        IN  /\ {text[k + 1] : k \in UrlPositions(text)} = urls
            /\ Cardinality(UrlPositions(text)) = Cardinality(urls)
            /\ \A k \in UrlPositions(text) :
                  /\ text[k - 5] = last(text[k + 1]).title
                  /\ text[k + 6] = last(text[k + 1]).content

\* C14 witness: the aggregator has run on an input in which a URL occurs in two
\* responses with different contents, before and after another URL.
C14_Witness ==
    /\ returned # <<>>
    /\ Len(args.search_response) >= 2
    /\ \E i \in DOMAIN args.search_response[1].results :
       \E j, k \in DOMAIN args.search_response[2].results :
          /\ j < k
          /\ args.search_response[1].results[i].url = args.search_response[2].results[k].url
          /\ args.search_response[1].results[i].content
                # args.search_response[2].results[k].content
          /\ args.search_response[2].results[j].url # args.search_response[2].results[k].url

\* the plan has no segment titled intro or outro, or has both and both are already in
\* the completed-segments accumulator
NothingToWrite ==
    LET intro_segment == FirstTitled(heap, segments, "intro")
        outro_segment == FirstTitled(heap, segments, "outro")
    IN  \/ intro_segment = <<>> /\ outro_segment = <<>>
        \/ /\ intro_segment # <<>> /\ outro_segment # <<>>
           /\ Contains(heap, completed_segments, intro_segment[1])
           /\ Contains(heap, completed_segments, outro_segment[1])

\* C15: when the plan has no segment titled intro or outro, or both are already in
\* the accumulator, the Intro/Outro Stage is a no-op: the step in which it runs writes
\* no dialogue, and the merge of a superstep in which it was the only writer of the
\* accumulator leaves the accumulator as it was.
C15_NoOpStage ==
    [][/\ (runs'.write_intro_outro = runs.write_intro_outro + 1 /\ NothingToWrite)
            => heap' = heap
       /\ (/\ superstep' = superstep + 1
           /\ ran = {"write_intro_outro"}
           /\ InstanceOutputs(inst) = <<>>
           /\ NothingToWrite)
            => completed_segments' = completed_segments]_vars

\* C16: when the workflow has ended without a transcript (none was written, or the
\* transcript is empty, as for a plan of zero segments), audio synthesis is never
\* started and the request is answered with an error and no result.
C16_NoTranscriptIsFatal ==
    (pc \in {"END", "ERROR"} /\ final_transcript \in {<<>>, <<EmptyText>>}) =>
        /\ ~synthesized
        /\ response # <<>> =>
              response[1].status = "error" /\ response[1].results = <<>>

\* C16 witness: a run whose plan had zero segments has reached END with an empty
\* transcript and the request has been answered.
C16_Witness ==
    /\ pc = "END"
    /\ runs.generate_podcast_plan = 1
    /\ segments = <<>>
    /\ final_transcript = <<EmptyText>>
    /\ response # <<>>

\* the text of a failure message that names no internal error
FixedFailureMessages == {<<"Failed to generate podcast: ">>, <<"Failed to process request: ">>}

\* C17: the message of a failure response, returned to the caller or posted to the
\* webhook, is the fixed failure text without the text of the internal error, so it is
\* the same whatever error ended the request.
C17_NoInternalErrorText ==
    \A k \in DOMAIN (response \o webhook) :
        (response \o webhook)[k].status = "error" =>
            (response \o webhook)[k].message \in FixedFailureMessages

\* the lines of the transcript: the maximal runs of tokens between line breaks
LinesOf(text) ==
    LET breaks == {0, Len(text) + 1} \cup {k \in DOMAIN text : text[k] = "\n"}
        starts == {b \in breaks : b <= Len(text)}
        end(b) == CHOOSE e \in breaks : e > b /\ \A x \in breaks : x > b => e <= x
        ordered == [n \in 1..Cardinality(starts) |->
                       CHOOSE b \in starts :
                           Cardinality({x \in starts : x < b}) = n - 1]
    IN  [n \in DOMAIN ordered |-> SubSeq(text, ordered[n] + 1, end(ordered[n]) - 1)]

\* the role of a line: that of the name it starts with once its asterisks are removed
\* and the white space around it is trimmed; "" for every other line
RoleOf(line) ==
    LET clean == SelectSeq(line, LAMBDA token : token # "*")
        inner == {k \in DOMAIN clean : clean[k] \notin WhiteSpace}
        first == CHOOSE k \in inner : \A j \in inner : k <= j
    IN  IF inner = {} \/ first = Len(clean) \/ clean[first + 1] # ":" THEN ""
        ELSE IF clean[first] = args.host_name THEN "host"
        ELSE IF clean[first] = args.guest_name THEN "guest"
        ELSE ""

\* C18: preprocess_transcript returns, in transcript order, exactly one entry per
\* non-blank line that, once every run of asterisks is removed (and the white space
\* around the line trimmed), starts with "<host_name>:" (role host) or
\* "<guest_name>:" (role guest); every other line is dropped; when no entry is left,
\* audio generation raises and starts no synthesis.
C18_SpeakerLines ==
    returned # <<>> =>
        LET roles == SelectSeq([n \in DOMAIN LinesOf(args.transcript) |->
                                   RoleOf(LinesOf(args.transcript)[n])],
                               LAMBDA role : role # "")
            conversations == returned[1].conversations
        IN  /\ [k \in DOMAIN conversations |-> conversations[k].role] = roles
            /\ conversations = <<>> =>
                  returned[1].raised # "" /\ ~returned[1].synthesis
            /\ conversations # <<>> => returned[1].raised = ""

\* C18 witness: a transcript of a guest line followed by a host line has been
\* preprocessed into two entries.
C18_Witness ==
    /\ returned # <<>>
    /\ Len(returned[1].conversations) = 2
    /\ returned[1].conversations[1].role = "guest"
    /\ returned[1].conversations[2].role = "host"

\* the instance is between two of its steps
InProgress(i) == inst[i].pc \in {"generate_queries", "search_web", "write_dialogue"}

\* C19: an instance searches once per round up to the first round graded pass, or up
\* to the round at which the iteration counter reaches max_search_depth: when no
\* external call has failed, an instance that is no longer in progress has been
\* accepted, after a round graded pass or with its search count at the depth.  A
\* first grade of fail under max_search_depth = 2 is followed by a second SEARCH.
C19_SearchCount ==
    \A i \in DOMAIN inst :
        (~externalFailed /\ ~InProgress(i)) =>
            /\ Terminated(i)
            /\ inst[i].searches >= 1
            /\ \/ inst[i].grade = "pass"
               \/ inst[i].searches >= configurable.max_search_depth

\* C20: in one run the Planning Stage, the Intro/Outro Stage and the Transcript
\* Compiler each execute at most once, in that order, the compiler last, and a run
\* that has reached END has executed each of them exactly once.
C20_StagesOnceInOrder ==
    /\ \A node \in DOMAIN runs : runs[node] <= 1
    /\ runs.write_intro_outro >= 1 => runs.generate_podcast_plan = 1
    /\ runs.compile_final_transcript >= 1 =>
          /\ runs.write_intro_outro = 1
          /\ scheduled = {}
          /\ \A i \in DOMAIN inst : ~InProgress(i)
    /\ pc = "END" => \A node \in DOMAIN runs : runs[node] = 1

\* C21: when the plan has no research-required segment, no sub-workflow instance is
\* dispatched, the superstep after the Planning Stage runs the Intro/Outro Stage
\* alone, the next one the Transcript Compiler alone, and the run then ends at END
\* with a transcript and without an error.
C21_NoResearchPath ==
    (superstep >= 1 /\ ResearchRequired = {}) =>
        /\ inst = <<>>
        /\ pc \in {"RUNNING", "END"}
        /\ superstep = 1 => scheduled \cup ran = {"write_intro_outro"}
        /\ superstep = 2 => scheduled \cup ran = {"compile_final_transcript"}
        /\ superstep >= 3 =>
              /\ superstep = 3
              /\ pc = "END"
              /\ final_transcript # <<>>
              /\ \A node \in DOMAIN runs : runs[node] = 1
        /\ pc = "END" <=> superstep = 3

\* C21 witness: a run whose plan has two segments, none research-required, has
\* reached END.
C21_Witness ==
    /\ pc = "END"
    /\ Len(segments) >= 2
    /\ ResearchRequired = {}

\* the moves of an instance between the nodes of the sub-graph that the claimed order
\* allows: from its position before a step to its position after it
OrderedMoves ==
    {<<"generate_queries", "search_web">>, <<"generate_queries", "raised">>,
     <<"search_web", "write_dialogue">>, <<"search_web", "raised">>,
     <<"write_dialogue", "search_web">>, <<"write_dialogue", "END">>,
     <<"write_dialogue", "raised">>, <<"END", "joined">>}

\* C22: an instance starts at generate_queries with no search made, never comes back
\* to generate_queries, reaches write_dialogue only by a step of its own search_web,
\* and leaves write_dialogue only to END, to search_web (revise) or by an exception;
\* every step of an instance moves it from the one node it is at to the next.
C22_InstanceOrder ==
    [][ /\ \A i \in DOMAIN inst' \ DOMAIN inst :
              /\ inst'[i].pc = "generate_queries"
              /\ inst'[i].searches = 0
        /\ \A i \in DOMAIN inst' \cap DOMAIN inst :
              \/ inst'[i].pc = inst[i].pc /\ inst'[i] = inst[i]
              \/ <<inst[i].pc, inst'[i].pc>> \in OrderedMoves ]_vars

\* C22 witness: an instance has gone through generate_queries, search_web and
\* write_dialogue and has ended with an accepted draft.
C22_Witness ==
    \E i \in DOMAIN inst :
        /\ inst[i].pc = "END"
        /\ inst[i].searches = 1
        /\ inst[i].search_queries = GeneratedQueries
        /\ inst[i].completed_segments = <<inst[i].segment>>

\* C23: an instance's search_iterations is 0 when the instance starts, a step of its
\* search_web that returns adds exactly 1 to it, every other step leaves it as it
\* is, and in every state it equals the number of searches the instance has made.
C23_IterationCounter ==
    [][ /\ \A i \in DOMAIN inst' \ DOMAIN inst : inst'[i].search_iterations = 0
        /\ \A i \in DOMAIN inst' \cap DOMAIN inst :
              inst'[i].search_iterations =
                  IF inst[i].pc = "search_web" /\ inst'[i].pc = "write_dialogue"
                  THEN inst[i].search_iterations + 1
                  ELSE inst[i].search_iterations
        /\ \A i \in DOMAIN inst' : inst'[i].search_iterations = inst'[i].searches ]_vars

\* C23 witness: an instance is at write_dialogue after its first search, with the
\* counter at 1.
C23_Witness ==
    \E i \in DOMAIN inst :
        /\ inst[i].pc = "write_dialogue"
        /\ inst[i].searches = 1
        /\ inst[i].search_iterations = 1

\* C24: when a draft is graded "fail" with the iteration counter below the maximum
\* search depth (REVISE), the step leaves the instance at search_web with the
\* feedback's follow-up queries as its whole query list and the same segment, whose
\* dialogue is the draft just written; the counter, the host and guest names and the
\* segment's title and research flag are as before the step.
C24_Revise ==
    [][ \A i \in DOMAIN inst \cap DOMAIN inst' :
          ( /\ inst[i].pc = "write_dialogue"
            /\ inst'[i].grade = "fail"
            /\ inst[i].search_iterations < configurable.max_search_depth )
          => /\ inst'[i].pc = "search_web"
             /\ inst'[i].search_queries = FollowUpQueries(inst[i].searches)
             /\ inst'[i].segment = inst[i].segment
             /\ heap'[inst[i].segment].dialogue =
                    DraftText(inst[i].segment, inst[i].searches)
             /\ heap'[inst[i].segment].title = heap[inst[i].segment].title
             /\ heap'[inst[i].segment].research = heap[inst[i].segment].research
             /\ inst'[i].search_iterations = inst[i].search_iterations
             /\ inst'[i].host = inst[i].host
             /\ inst'[i].guest = inst[i].guest ]_vars

\* C25: a step changes a segment's dialogue only if the dialogue is still the
\* plan-time one (no second write), a draft is written only to a research-required
\* segment and an opening or closing only to a segment titled intro or outro, and
\* when the run ends at END every segment that is research-required or titled intro
\* or outro carries a written dialogue.
C25_WrittenOnce ==
    [][ /\ \A r \in DOMAIN heap \cap DOMAIN heap' :
              heap'[r].dialogue # heap[r].dialogue =>
                  /\ heap[r].dialogue \in PlanDialogues
                  /\ heap'[r].dialogue \in {OpeningText, ClosingText}
                        => IsIntroOrOutro(heap[r])
                  /\ heap'[r].dialogue \notin {OpeningText, ClosingText}
                        => heap[r].research
        /\ pc' = "END" =>
              \A r \in DOMAIN heap' :
                  (heap'[r].research \/ IsIntroOrOutro(heap'[r]))
                      => heap'[r].dialogue \notin PlanDialogues ]_vars

\* a planned segment no writing stage is responsible for
NoWriter(r) == ~heap[r].research /\ ~IsIntroOrOutro(heap[r])

\* C26: once the plan is merged, a planned segment that is not research-required and
\* not titled intro or outro is in the accumulator, keeps its plan-time dialogue in
\* every state, is never named by an error, and no missing-segments error is raised;
\* when the run ends at END the transcript is the planned dialogues in plan order,
\* the segment's block being its empty plan-time dialogue.
C26_BlankBlockAccepted ==
    superstep >= 1 =>
        \A k \in DOMAIN segments :
            NoWriter(segments[k]) =>
                /\ \E j \in DOMAIN completed_segments :
                        completed_segments[j] = segments[k]
                /\ heap[segments[k]].dialogue \in PlanDialogues
                /\ \A j \in DOMAIN error.titles :
                        error.titles[j] # heap[segments[k]].title
                /\ error.kind # "ValueError: Missing processed segments"
                /\ ResearchRequired = {} => pc # "ERROR"
                /\ pc = "END" =>
                      /\ error = NoError
                      /\ heap[segments[k]].dialogue = EmptyText
                      /\ final_transcript =
                            <<BlankLineSeparated(
                                 [j \in DOMAIN segments |-> heap[segments[j]].dialogue])>>

\* C26 witness: a run has ended at END whose plan has a research-required segment with
\* a written dialogue followed by a segment that no stage writes.
C26_Witness ==
    /\ pc = "END"
    /\ Len(segments) = 2
    /\ heap[segments[1]].research
    /\ heap[segments[1]].dialogue # EmptyText
    /\ NoWriter(segments[2])
    /\ final_transcript = <<heap[segments[1]].dialogue \o <<"\n\n">> >>

\* C27: in a search round a search returns only when every search of the round has
\* been issued; the aggregation starts only when every search has returned, and
\* what it reads is one response per query, the k-th being the response to the
\* k-th query, in whatever order the searches returned.
C27_WholeBatch ==
    /\ (\E k \in DOMAIN search.tasks : search.tasks[k].status \in {"done", "failed"})
          => \A k \in DOMAIN search.tasks : search.tasks[k].status # "created"
    /\ search.at \in {"aggregate", "done"} =>
          /\ \A k \in DOMAIN search.tasks : search.tasks[k].status = "done"
          /\ Len(search.arrived) = Len(args.search_queries)
          /\ Len(search.search_docs) = Len(args.search_queries)
          /\ \A k \in DOMAIN args.search_queries :
                /\ search.tasks[k].query = args.search_queries[k]
                /\ search.search_docs[k] = search.tasks[k].response
                /\ search.search_docs[k] \in ProviderResponses
    /\ search.at = "done" =>
          returned = <<[source_str |->
                          FormattedSources(GatherResults(search.tasks),
                                           MaxTokensPerSource, TRUE)]>>

\* C27 witness: a round of two different queries whose searches returned in the
\* reverse of the query order, with different responses, has been aggregated.
C27_Witness ==
    /\ search.at = "done"
    /\ Len(args.search_queries) = 2
    /\ args.search_queries[1] # args.search_queries[2]
    /\ search.arrived = <<2, 1>>
    /\ search.search_docs[1] # search.search_docs[2]

\* the instance's search_web has raised: it has its queries and no source text
SearchRaised(i) ==
    /\ inst[i].pc = "raised"
    /\ inst[i].search_queries # <<>>
    /\ inst[i].source_str = <<>>

\* C28: when the search of generate_podcast_plan raises, the run ends in that error
\* with no plan, no segment and nothing scheduled or started; when the search of an
\* instance's search_web raises, the run ends in the unsupported-search error, the
\* instance has no source text, its iteration counter is the number of its searches
\* that returned, and its segment has no draft and is not in its output.
C28_SearchFailureAborts ==
    /\ error.kind = PlanCallError.search_fails =>
          /\ pc = "ERROR"
          /\ superstep = 0
          /\ runs.generate_podcast_plan = 0
          /\ heap = <<>> /\ segments = <<>> /\ inst = <<>>
          /\ writes = NoWrites
          /\ final_transcript = <<>>
    /\ \A i \in DOMAIN inst :
          SearchRaised(i) =>
              /\ pc = "ERROR"
              /\ error = [kind |-> "ValueError: Unsupported search API", titles |-> <<>>]
              /\ inst[i].search_iterations = inst[i].searches
              /\ inst[i].search_iterations = 0
              /\ inst[i].grade = ""
              /\ inst[i].completed_segments = <<>>
              /\ heap[inst[i].segment].dialogue
                    \in PlanDialogues \cup {OpeningText, ClosingText}
              /\ \A j \in DOMAIN completed_segments :
                    completed_segments[j] # inst[i].segment

\* C28 witness: the search of the second of two instances has raised after the first
\* instance's search returned.
C28_Witness ==
    /\ Len(inst) = 2
    /\ SearchRaised(2)
    /\ inst[1].searches = 1
    /\ error.kind = "ValueError: Unsupported search API"

\* C29: no step changes the title of a segment object, and after every step every
\* title in the accumulator is the title of a planned segment (the accumulator is
\* empty in the initial state).
C29_TitlesFixed ==
    [][ /\ \A r \in DOMAIN heap : r \in DOMAIN heap' /\ heap'[r].title = heap[r].title
        /\ AccumulatedTitles' \subseteq PlannedTitles' ]_vars

\* C29 witness: the run has ended with a written intro and a drafted segment in the
\* accumulator.
C29_Witness ==
    /\ pc = "END"
    /\ \E j, k \in DOMAIN completed_segments :
          /\ heap[completed_segments[j]].dialogue = OpeningText
          /\ heap[completed_segments[k]].research
          /\ heap[completed_segments[k]].dialogue \notin {EmptyText, OpeningText, ClosingText}
    /\ AccumulatedTitles = PlannedTitles

\* C30: a step of an instance (of its generate_queries, search_web or write_dialogue)
\* leaves every other instance's state, and the segment object of every other
\* instance, as they were; it changes no object but its own segment, leaves the
\* parent's accumulator as it was, and writes its output for the accumulator, its own
\* segment alone, only in the step that ends the instance.  No two instances have
\* the same segment.
C30_InstancesIsolated ==
    [][ /\ \A i, j \in DOMAIN inst' : inst'[i].segment = inst'[j].segment => i = j
        /\ \A i \in DOMAIN inst \cap DOMAIN inst' :
              (InProgress(i) /\ inst'[i] # inst[i]) =>
                  /\ \A j \in DOMAIN inst \ {i} :
                        /\ inst'[j] = inst[j]
                        /\ heap'[inst[j].segment] = heap[inst[j].segment]
                  /\ \A r \in DOMAIN heap \ {inst[i].segment} : heap'[r] = heap[r]
                  /\ completed_segments' = completed_segments
                  /\ writes' = writes
                  /\ inst'[i].completed_segments # inst[i].completed_segments =>
                        /\ inst'[i].pc = "END"
                        /\ inst'[i].completed_segments = <<inst[i].segment>> ]_vars

\* C30 witness: of two instances the second has ended with its draft accepted while
\* the first is still before its search.
C30_Witness ==
    /\ Len(inst) = 2
    /\ inst[1].pc = "search_web"
    /\ heap[inst[1].segment].dialogue \in PlanDialogues
    /\ inst[2].pc = "END"
    /\ inst[2].completed_segments = <<inst[2].segment>>
    /\ heap[inst[2].segment].dialogue = DraftText(inst[2].segment, 1)

\* C31: whenever compile_final_transcript is scheduled or has run in the current
\* superstep, every instance has ended by accepting, every planned segment is in the
\* accumulator (so no planned title is absent from it), and in no state has the
\* missing-segments error been raised.
C31_NothingMissing ==
    /\ "compile_final_transcript" \in scheduled \cup ran =>
          /\ \A i \in DOMAIN inst : Terminated(i)
          /\ \A k \in DOMAIN segments :
                \E j \in DOMAIN completed_segments : completed_segments[j] = segments[k]
          /\ PlannedTitles \subseteq AccumulatedTitles
    /\ error.kind # "ValueError: Missing processed segments"

\* C31 witness: the compiler has run and the run has ended for a plan with a seeded
\* segment and a research-required segment that is not an intro or outro.
C31_Witness ==
    /\ pc = "END"
    /\ runs.compile_final_transcript >= 1
    /\ \E j, k \in DOMAIN segments :
          /\ ~heap[segments[j]].research
          /\ heap[segments[k]].research /\ ~IsIntroOrOutro(heap[segments[k]])

\* C32: every external call made for a request was made with the API keys of that
\* request's own payload, and when no call of process_podcast_request is in progress
\* no request's keys are in os.environ.
C32_KeysPerRequest ==
    /\ \A r \in DOMAIN handlers : handlers[r].used \subseteq {handlers[r].api_keys}
    /\ (\A r \in DOMAIN handlers : handlers[r].at \in {"returned", "raised"})
          => os_environ = NoKeys

\* C33: a call of process_podcast_request whose inputs validated never ends by
\* raising, and when it has returned its response carries the request's execution_id
\* and status success or error; status success implies that the transcript was
\* compiled and the audio generated and uploaded, status error implies empty results;
\* whether or not the webhook delivery failed, the response is the success response
\* exactly when the upload returned, and it is the payload handed to the webhook.
C33_AlwaysResponds ==
    \A r \in DOMAIN handlers :
        /\ handlers[r].at = "raised" => ~handlers[r].parsed
        /\ handlers[r].at \in {"run", "upload"} => handlers[r].response = <<>>
        /\ handlers[r].at = "returned" =>
              /\ Len(handlers[r].response) = 1
              /\ LET resp == handlers[r].response[1]
                 IN  /\ resp.execution_id = ExecutionId(r)
                     /\ resp.status \in {"success", "error"}
                     /\ resp.status = "success" =>
                           /\ handlers[r].transcript
                           /\ handlers[r].audio
                           /\ handlers[r].uploaded
                           /\ resp.results # <<>>
                     /\ resp.status = "error" => resp.results = <<>>
                     /\ handlers[r].uploaded => resp.status = "success"
                     /\ handlers[r].posted \in {<<>>, <<resp>>}

\* C33 witness: of two calls the second has returned the success response although
\* its webhook delivery failed, and the first has returned an error response.
C33_Witness ==
    /\ Len(handlers) = 2
    /\ handlers[1].at = "returned" /\ handlers[1].response[1].status = "error"
    /\ handlers[2].at = "returned" /\ handlers[2].response[1].status = "success"
    /\ handlers[2].webhook_failed
    /\ handlers[2].response[1].execution_id = ExecutionId(2)

RECURSIVE FirstSeen(_)
\* the distinct elements of a sequence in the order of their first occurrences
FirstSeen(seq) ==
    IF seq = <<>> THEN <<>>
    ELSE LET before == FirstSeen(SubSeq(seq, 1, Len(seq) - 1))
             last == seq[Len(seq)]
         IN  IF \E k \in DOMAIN before : before[k] = last THEN before
             ELSE Append(before, last)

\* the positions of the output at which a URL is emitted, in increasing order
UrlPositionsInOrder(text) ==
    SelectSeq([k \in DOMAIN text |-> k], LAMBDA k : text[k] = "URL: ")

\* C35: the URLs the Source Aggregator emits, in the order of the output, are the
\* distinct URLs of the flattened input in the order in which they are first seen;
\* the title and the content emitted at each position are those of the last
\* occurrence of the position's URL.  The order and the contents of the output are
\* thereby fixed by the order of the input.
C35_FirstSeenOrder ==
    returned # <<>> =>
        LET text == returned[1]
            sources_list == Flatten(args.search_response)
            urls == FirstSeen([k \in DOMAIN sources_list |-> sources_list[k].url])
            at == UrlPositionsInOrder(text)
            lastOf(url) == CHOOSE k \in DOMAIN sources_list :
                              /\ sources_list[k].url = url
                              /\ \A j \in DOMAIN sources_list :
                                    sources_list[j].url = url => j <= k
        IN  /\ [n \in DOMAIN at |-> text[at[n] + 1]] = urls
            /\ \A n \in DOMAIN at :
                  /\ text[at[n] - 5] = sources_list[lastOf(urls[n])].title
                  /\ text[at[n] + 6] = sources_list[lastOf(urls[n])].content

\* C35 witness: the aggregator has run on an input whose flattened list is a URL, a
\* second URL, and the first URL again with another content.
C35_Witness ==
    /\ returned # <<>>
    /\ LET sources_list == Flatten(args.search_response)
       IN  /\ Len(sources_list) = 3
           /\ sources_list[1].url = sources_list[3].url
           /\ sources_list[1].url # sources_list[2].url
           /\ sources_list[1].content # sources_list[3].content

RECURSIVE UpToWhiteSpace(_)
\* the tokens of a text before its first white space
UpToWhiteSpace(text) ==
    IF text = <<>> \/ Head(text) \in WhiteSpace THEN <<>>
    ELSE <<Head(text)>> \o UpToWhiteSpace(Tail(text))

\* the positions of the output at which a source's full content is announced
FullContentPositions(text) ==
    SelectSeq([k \in DOMAIN text |-> k],
              LAMBDA k : text[k] = "Full source content limited to ")

\* the full content of a source as the input gives it: empty when the key is absent
\* or its value is null
FullContent(source) ==
    IF "raw_content" \in DOMAIN source /\ source.raw_content # None
    THEN source.raw_content[2]
    ELSE <<>>

\* C36: when the full content is included, the aggregator returns (it raises for no
\* input) and emits one full content per unique source, in their order: the first
\* budget x 4 characters followed by the truncation marker when the source's full
\* content is longer than budget x 4 characters, the full content itself and no
\* marker when it is not, and nothing when the full content is absent or null.
C36_Truncation ==
    (returned # <<>> /\ args.include_raw_content) =>
        LET text == returned[1]
            budget == args.max_tokens_per_source
            sources_list == Flatten(args.search_response)
            urls == FirstSeen([k \in DOMAIN sources_list |-> sources_list[k].url])
            lastOf(url) == CHOOSE k \in DOMAIN sources_list :
                              /\ sources_list[k].url = url
                              /\ \A j \in DOMAIN sources_list :
                                    sources_list[j].url = url => j <= k
            at == FullContentPositions(text)
        IN  /\ Len(at) = Len(urls)
            /\ \A n \in DOMAIN at :
                  LET full == FullContent(sources_list[lastOf(urls[n])])
                      emitted == UpToWhiteSpace(SubSeq(text, at[n] + 4, Len(text)))
                  IN  /\ text[at[n] + 1] = NumeralOf[budget]
                      /\ Len(full) > budget * 4 =>
                            emitted = SubSeq(full, 1, budget * 4)
                                          \o <<"... [truncated]">>
                      /\ Len(full) <= budget * 4 => emitted = full

\* C36 witness: the aggregator has run with a budget of 1 on an input with a source
\* whose full content has five characters and a source whose full content is null.
C36_Witness ==
    /\ returned # <<>>
    /\ args.include_raw_content
    /\ args.max_tokens_per_source = 1
    /\ LET sources_list == Flatten(args.search_response)
       IN  /\ Len(sources_list) = 2
           /\ Len(FullContent(sources_list[1])) = 5
           /\ "raw_content" \in DOMAIN sources_list[2]
           /\ sources_list[2].raw_content = None
           /\ sources_list[1].url # sources_list[2].url

====
